---- MODULE Spec2Model ----
(***************************************************************************)
(* Recursive-descent expression evaluator (expression_parser.py).          *)
(*                                                                         *)
(* The text is a sequence of one-character strings.  Python indices are    *)
(* 0-based: data[i] of the source is data[i + 1] here.  Floats are exact   *)
(* rationals <<numerator, denominator>> in lowest terms, denominator > 0   *)
(* (rounding of IEEE doubles is outside the model).  The Python call stack *)
(* is the sequence `stack`, innermost frame last.                          *)
(***************************************************************************)
EXTENDS Integers, Sequences, FiniteSets, TLC

VARIABLES lexer, stack, ret, result, lastOp, steps, round, first

vars == <<lexer, stack, ret, result, lastOp, steps, round, first>>

----------------------------------------------------------------------------
(* Bounds of the checked inputs.                                           *)

MaxRawLen == 3

MaxTokens == 4

----------------------------------------------------------------------------
(* Token identifiers of class Lexer; NONE is Python's None.                *)

NONE == 0

OPEN_PAR == 1

CLOSE_PAR == 2

OPERATOR == 3

NUM == 4

Whitespace == {" ", "\t", "\n", "\r"}

Digits == {"0", "1", "2", "3", "4", "5", "6", "7", "8", "9"}

----------------------------------------------------------------------------
(* Numbers.                                                                *)

Abs(n) == IF n < 0 THEN -n ELSE n

RECURSIVE GCD(_, _)
GCD(a, b) == IF b = 0 THEN a ELSE GCD(b, a % b)

Norm(n, d) ==
    LET g == GCD(Abs(n), Abs(d))
        s == IF d < 0 THEN -1 ELSE 1
    IN  <<(s * n) \div g, (s * d) \div g>>

Whole(n) == <<n, 1>>

Add(x, y) == Norm(x[1] * y[2] + y[1] * x[2], x[2] * y[2])

Mul(x, y) == Norm(x[1] * y[1], x[2] * y[2])

Neg(x) == <<-x[1], x[2]>>

\* bool(x) of a number: zero is falsy.
Truthy(x) == x[1] # 0

\* Python's `x or y` on numbers.
Or(x, y) == IF Truthy(x) THEN x ELSE y

RECURSIVE Pow10(_)
Pow10(n) == IF n = 0 THEN 1 ELSE 10 * Pow10(n - 1)

DigitVal(c) ==
    CASE c = "0" -> 0 [] c = "1" -> 1 [] c = "2" -> 2 [] c = "3" -> 3
      [] c = "4" -> 4 [] c = "5" -> 5 [] c = "6" -> 6 [] c = "7" -> 7
      [] c = "8" -> 8 [] c = "9" -> 9

\* Value of the digit string s[i..j] (0 for the empty string).
RECURSIVE DigitsVal(_, _, _)
DigitsVal(s, i, j) ==
    IF j < i THEN 0 ELSE 10 * DigitsVal(s, i, j - 1) + DigitVal(s[j])

\* Number of consecutive digits of s from index i on.
RECURSIVE DigitRun(_, _)
DigitRun(s, i) ==
    IF i <= Len(s) /\ s[i] \in Digits THEN 1 + DigitRun(s, i + 1) ELSE 0

\* num_re.match(s): the length of the match of
\*   [+-]?(\d+(\.\d*)?|\.\d+)(e\d+)?
\* at the start of s, or -1 when there is none.
num_re_match(s) ==
    LET sg == IF Len(s) >= 1 /\ s[1] \in {"+", "-"} THEN 1 ELSE 0
        n1 == DigitRun(s, sg + 1)
        dot(i) == i <= Len(s) /\ s[i] = "."
        body == IF n1 >= 1
                THEN IF dot(sg + n1 + 1)
                     THEN n1 + 1 + DigitRun(s, sg + n1 + 2)
                     ELSE n1
                ELSE IF dot(sg + 1) /\ DigitRun(s, sg + 2) >= 1
                     THEN 1 + DigitRun(s, sg + 2)
                     ELSE -1
        e == sg + body + 1
        ex == IF body # -1 /\ e <= Len(s) /\ s[e] = "e" /\ DigitRun(s, e + 1) >= 1
              THEN 1 + DigitRun(s, e + 1)
              ELSE 0
    IN  IF body = -1 THEN -1 ELSE sg + body + ex

\* float(value) of a lexeme the pattern matched.
float(value) ==
    LET sg == IF value[1] \in {"+", "-"} THEN 1 ELSE 0
        n1 == DigitRun(value, sg + 1)
        hasDot == sg + n1 + 1 <= Len(value) /\ value[sg + n1 + 1] = "."
        nf == IF hasDot THEN DigitRun(value, sg + n1 + 2) ELSE 0
        e == sg + n1 + (IF hasDot THEN 1 + nf ELSE 0) + 1
        ex == IF e <= Len(value) /\ value[e] = "e"
              THEN DigitsVal(value, e + 1, Len(value))
              ELSE 0
        mant == DigitsVal(value, sg + 1, sg + n1) * Pow10(nf)
                + (IF hasDot THEN DigitsVal(value, sg + n1 + 2, sg + n1 + 1 + nf) ELSE 0)
        mag == Norm(mant * Pow10(ex), Pow10(nf))
    IN  IF value[1] = "-" THEN Neg(mag) ELSE mag

----------------------------------------------------------------------------
(* class Lexer.                                                            *)

\* Lexer.__init__
NewLexer(data) == [data |-> data, current |-> 0, previous |-> -1]

\* The loop `while self.data[current] in " \t\n\r": current += 1`; it stops
\* at the first index that is not whitespace, or at len(data), where the
\* subscript raises IndexError.
RECURSIVE SkipSpace(_, _)
SkipSpace(d, c) ==
    IF c < Len(d) /\ d[c + 1] \in Whitespace THEN SkipSpace(d, c + 1) ELSE c

Tok(id, value, current) ==
    [id |-> id, value |-> value, current |-> current, exc |-> ""]

PeekRaise(kind, current) ==
    [id |-> NONE, value |-> <<>>, current |-> current, exc |-> kind]

\* A variant of the test that takes the minus sign with the other operators.
operator_char_with_minus(char) == char \in {"+", "-", "/", "*"}

\* The test `char in "+/*"`: the minus sign is left to the number pattern.
operator_char(char) == char \in {"+", "/", "*"}

\* Lexer.peek: (token_id, token_value, current), or the exception raised.
peek(lx) ==
    IF lx.current < Len(lx.data)
    THEN LET c == SkipSpace(lx.data, lx.current)
         IN  IF c >= Len(lx.data)
             THEN PeekRaise("IndexError", c)
             ELSE LET char == lx.data[c + 1]
                      current == c + 1
                      m == num_re_match(SubSeq(lx.data, c + 1, Len(lx.data)))
                  IN  IF char = "(" THEN Tok(OPEN_PAR, <<char>>, current)
                      ELSE IF char = ")" THEN Tok(CLOSE_PAR, <<char>>, current)
                      ELSE IF operator_char(char)
                           THEN Tok(OPERATOR, <<char>>, current)
                      ELSE IF m = -1
                           THEN IF char = "-"
                                THEN Tok(OPERATOR, <<char>>, current)
                                ELSE PeekRaise("Exception", current)
                      ELSE Tok(NUM, SubSeq(lx.data, c + 1, c + m), current + m - 1)
    ELSE Tok(NONE, <<>>, lx.current)

\* A variant of __next__ that records the position and does not advance.
next_without_advance(lx) ==
    LET p == peek(lx)
    IN  IF p.exc # ""
        THEN [lexer |-> lx, id |-> NONE, value |-> <<>>, stop |-> FALSE, exc |-> p.exc]
        ELSE IF p.id # NONE
        THEN [lexer |-> [lx EXCEPT !.previous = lx.current],
              id |-> p.id, value |-> p.value, stop |-> FALSE, exc |-> ""]
        ELSE [lexer |-> lx, id |-> NONE, value |-> <<>>, stop |-> TRUE, exc |-> ""]

\* Lexer.__next__: the token and the lexer after it; stop is StopIteration.
next(lx) ==
    LET p == peek(lx)
    IN  IF p.exc # ""
        THEN [lexer |-> lx, id |-> NONE, value |-> <<>>, stop |-> FALSE, exc |-> p.exc]
        ELSE IF p.id # NONE
        THEN [lexer |-> [lx EXCEPT !.previous = lx.current, !.current = p.current],
              id |-> p.id, value |-> p.value, stop |-> FALSE, exc |-> ""]
        ELSE [lexer |-> lx, id |-> NONE, value |-> <<>>, stop |-> TRUE, exc |-> ""]

\* A variant of put_back that leaves the cursor where it is.
put_back_nothing(lx) == lx

\* Lexer.put_back
put_back(lx) == [lx EXCEPT !.current = lx.previous]

----------------------------------------------------------------------------
(* The call stack of parse and the grammar rules.                          *)

Frame(fn, pc) ==
    [fn |-> fn, pc |-> pc, token |-> NONE, value |-> <<>>, num |-> Whole(0)]

Running == [status |-> "running", value |-> Whole(0), exc |-> ""]

Top == stack[Len(stack)]

Below == SubSeq(stack, 1, Len(stack) - 1)

AtPc(fn, pc) ==
    /\ result.status = "running"
    /\ stack # <<>>
    /\ Top.fn = fn
    /\ Top.pc = pc

\* The running frame moves to pc and calls fn.
Call(pc, fn) ==
    /\ stack' = Below \o <<[Top EXCEPT !.pc = pc], Frame(fn, "start")>>
    /\ UNCHANGED <<lexer, ret, result, lastOp>>

\* The running frame keeps the value returned to it and calls fn.
KeepAndCall(pc, fn) ==
    /\ stack' = Below \o <<[Top EXCEPT !.pc = pc, !.num = ret], Frame(fn, "start")>>
    /\ UNCHANGED <<lexer, ret, result, lastOp>>

\* return v
Return(v) ==
    /\ stack' = Below
    /\ ret' = v
    /\ UNCHANGED result

\* An exception no frame catches: it unwinds every frame and ends parse.
Raise(kind) ==
    /\ stack' = <<>>
    /\ result' = [status |-> "raised", value |-> Whole(0), exc |-> kind]
    /\ UNCHANGED ret

Tick == /\ steps' = steps + 1
        /\ UNCHANGED <<round, first>>

\* token, value = next(data) in a rule; onStop is the rule's StopIteration
\* handler (its return value, or the exception it raises instead).
NextToken(onStopRaise, onStopValue) ==
    LET n == next(lexer)
    IN  /\ lexer' = n.lexer
        /\ IF n.exc # ""
           THEN /\ Raise(n.exc)
                /\ lastOp' = "error"
           ELSE IF n.stop
           THEN /\ lastOp' = "stop"
                /\ IF onStopRaise # ""
                   THEN Raise(onStopRaise)
                   ELSE Return(onStopValue)
           ELSE /\ lastOp' = "next"
                /\ stack' = Below \o
                       <<[Top EXCEPT !.pc = "branch", !.token = n.id, !.value = n.value]>>
                /\ UNCHANGED <<ret, result>>

\* data.put_back(); return v
PutBackReturn(v) ==
    /\ lexer' = put_back(lexer)
    /\ lastOp' = "put_back"
    /\ Return(v)

\* parse: lexer = Lexer(source_code); return parse_E(lexer)
parse_call ==
    /\ AtPc("parse", "start")
    /\ Call("after_E", "parse_E")
    /\ Tick

parse_return ==
    /\ AtPc("parse", "after_E")
    /\ stack' = Below
    /\ result' = [status |-> "returned", value |-> ret, exc |-> ""]
    /\ UNCHANGED <<lexer, ret, lastOp>>
    /\ Tick

\* parse_E: T = parse_T(data)
parse_E_call_T ==
    /\ AtPc("parse_E", "start")
    /\ Call("after_T", "parse_T")
    /\ Tick

\* parse_E: E_prime = parse_E_prime(data)
parse_E_call_E_prime ==
    /\ AtPc("parse_E", "after_T")
    /\ KeepAndCall("after_E_prime", "parse_E_prime")
    /\ Tick

\* parse_E: return T + (E_prime or 0)
parse_E_value(T, E_prime) == Add(T, Or(E_prime, Whole(0)))

parse_E_return ==
    /\ AtPc("parse_E", "after_E_prime")
    /\ Return(parse_E_value(Top.num, ret))
    /\ UNCHANGED <<lexer, lastOp>>
    /\ Tick

\* parse_E_prime: token, operator = next(data); StopIteration returns 0
parse_E_prime_next ==
    /\ AtPc("parse_E_prime", "start")
    /\ NextToken("", Whole(0))
    /\ Tick

E_prime_takes(token, operator) == token = OPERATOR /\ operator \in {<<"+">>, <<"-">>}

\* A variant of the test that lets every token through.
tail_rejects_nothing(token) == FALSE

\* The test `token not in [Lexer.OPERATOR, Lexer.OPEN_PAR, Lexer.CLOSE_PAR]`.
tail_rejects(token) == token \notin {OPERATOR, OPEN_PAR, CLOSE_PAR}

\* parse_E_prime: T = parse_T(data) after + or -
parse_E_prime_call_T ==
    /\ AtPc("parse_E_prime", "branch")
    /\ E_prime_takes(Top.token, Top.value)
    /\ Call("after_T", "parse_T")
    /\ Tick

\* parse_E_prime, no + or -: data.error("Invalid character: ...") on a
\* token that is no operator and no parenthesis; else data.put_back();
\* return 0
parse_E_prime_put_back ==
    /\ AtPc("parse_E_prime", "branch")
    /\ ~E_prime_takes(Top.token, Top.value)
    /\ IF tail_rejects(Top.token)
       THEN /\ Raise("ParserError")
            /\ UNCHANGED <<lexer, lastOp>>
       ELSE PutBackReturn(Whole(0))
    /\ Tick

\* parse_E_prime: E_prime = parse_E_prime(data)
parse_E_prime_call_E_prime ==
    /\ AtPc("parse_E_prime", "after_T")
    /\ KeepAndCall("after_E_prime", "parse_E_prime")
    /\ Tick

\* parse_E_prime: return (T if operator == "+" else -1 * T) + (E_prime or 0)
parse_E_prime_value(operator, T, E_prime) ==
    Add(IF operator = <<"+">> THEN T ELSE Mul(Whole(-1), T), Or(E_prime, Whole(0)))

parse_E_prime_return ==
    /\ AtPc("parse_E_prime", "after_E_prime")
    /\ Return(parse_E_prime_value(Top.value, Top.num, ret))
    /\ UNCHANGED <<lexer, lastOp>>
    /\ Tick

\* parse_T: F = parse_F(data)
parse_T_call_F ==
    /\ AtPc("parse_T", "start")
    /\ Call("after_F", "parse_F")
    /\ Tick

\* parse_T: T_prime = parse_T_prime(data)
parse_T_call_T_prime ==
    /\ AtPc("parse_T", "after_F")
    /\ KeepAndCall("after_T_prime", "parse_T_prime")
    /\ Tick

\* parse_T: return F * (T_prime or 1)
parse_T_value(F, T_prime) == Mul(F, Or(T_prime, Whole(1)))

parse_T_return ==
    /\ AtPc("parse_T", "after_T_prime")
    /\ Return(parse_T_value(Top.num, ret))
    /\ UNCHANGED <<lexer, lastOp>>
    /\ Tick

\* parse_T_prime: token, operator = next(data); StopIteration returns 1
parse_T_prime_next ==
    /\ AtPc("parse_T_prime", "start")
    /\ NextToken("", Whole(1))
    /\ Tick

T_prime_takes(token, operator) == token = OPERATOR /\ operator \in {<<"*">>, <<"/">>}

\* parse_T_prime: F = parse_F(data) after * or /
parse_T_prime_call_F ==
    /\ AtPc("parse_T_prime", "branch")
    /\ T_prime_takes(Top.token, Top.value)
    /\ Call("after_F", "parse_F")
    /\ Tick

\* parse_T_prime, no * or /: data.error("Invalid character: ...") on a
\* token that is no operator and no parenthesis; else data.put_back();
\* return 1
parse_T_prime_put_back ==
    /\ AtPc("parse_T_prime", "branch")
    /\ ~T_prime_takes(Top.token, Top.value)
    /\ IF tail_rejects(Top.token)
       THEN /\ Raise("ParserError")
            /\ UNCHANGED <<lexer, lastOp>>
       ELSE PutBackReturn(Whole(1))
    /\ Tick

\* parse_T_prime: T_prime = parse_T_prime(data)
parse_T_prime_call_T_prime ==
    /\ AtPc("parse_T_prime", "after_F")
    /\ KeepAndCall("after_T_prime", "parse_T_prime")
    /\ Tick

\* A variant with IEEE division, which raises nothing.
DivisionNeverRaises(operator, F) == FALSE

\* 1 / F raises ZeroDivisionError when F is zero.
DivisionRaises(operator, F) == operator # <<"*">> /\ ~Truthy(F)

\* parse_T_prime: return (F if operator == "*" else 1 / F) * T_prime
parse_T_prime_value(operator, F, T_prime) ==
    Mul(IF operator = <<"*">> THEN F ELSE Norm(F[2], F[1]), T_prime)

parse_T_prime_return ==
    /\ AtPc("parse_T_prime", "after_T_prime")
    /\ IF DivisionRaises(Top.value, Top.num)
       THEN Raise("ZeroDivisionError")
       ELSE Return(parse_T_prime_value(Top.value, Top.num, ret))
    /\ UNCHANGED <<lexer, lastOp>>
    /\ Tick

\* parse_F: token, value = next(data); StopIteration raises
\* Exception("Unexpected end of source.")
parse_F_next ==
    /\ AtPc("parse_F", "start")
    /\ NextToken("Exception", Whole(0))
    /\ Tick

\* parse_F: E = parse_E(data) after (
parse_F_call_E ==
    /\ AtPc("parse_F", "branch")
    /\ Top.token = OPEN_PAR
    /\ Call("after_E", "parse_E")
    /\ Tick

\* parse_F: the closing parenthesis; anything else, the end of the text
\* included, is data.error("Unbalanced parenthesis.")
parse_F_close ==
    /\ AtPc("parse_F", "after_E")
    /\ LET n == next(lexer)
       IN  /\ lexer' = n.lexer
           /\ IF n.exc # ""
              THEN /\ Raise(n.exc)
                   /\ lastOp' = "error"
              ELSE IF n.stop
              THEN /\ Raise("ParserError")
                   /\ lastOp' = "stop"
              ELSE /\ lastOp' = "next"
                   /\ IF <<n.id, n.value>> # <<CLOSE_PAR, <<")">>>>
                      THEN Raise("ParserError")
                      ELSE Return(ret)
    /\ Tick

\* parse_F: return float(value)
parse_F_num ==
    /\ AtPc("parse_F", "branch")
    /\ Top.token # OPEN_PAR
    /\ Top.token = NUM
    /\ Return(float(Top.value))
    /\ UNCHANGED <<lexer, lastOp>>
    /\ Tick

\* parse_F: raise data.error("Unexpected token: ...")
parse_F_unexpected ==
    /\ AtPc("parse_F", "branch")
    /\ Top.token \notin {OPEN_PAR, NUM}
    /\ Raise("ParserError")
    /\ UNCHANGED <<lexer, lastOp>>
    /\ Tick

ParseStep ==
    \/ parse_call
    \/ parse_return
    \/ parse_E_call_T
    \/ parse_E_call_E_prime
    \/ parse_E_return
    \/ parse_E_prime_next
    \/ parse_E_prime_call_T
    \/ parse_E_prime_put_back
    \/ parse_E_prime_call_E_prime
    \/ parse_E_prime_return
    \/ parse_T_call_F
    \/ parse_T_call_T_prime
    \/ parse_T_return
    \/ parse_T_prime_next
    \/ parse_T_prime_call_F
    \/ parse_T_prime_put_back
    \/ parse_T_prime_call_T_prime
    \/ parse_T_prime_return
    \/ parse_F_next
    \/ parse_F_call_E
    \/ parse_F_close
    \/ parse_F_num
    \/ parse_F_unexpected

----------------------------------------------------------------------------
(* The inputs of parse and the driver that calls it.                       *)

RawAlphabet == {"0", "1", "2", "-", "+", "*", "/", "(", ")", " ", "\t", ".", "a"}

Literals == {<<"0">>, <<"1">>, <<"-", "2">>}

Lexemes == Literals \cup {<<"+">>, <<"-">>, <<"*">>, <<"/">>, <<"(">>, <<")">>}

\* The lexemes of toks with gap between every two of them, except that
\* the gap after lexeme i is alt.
RECURSIVE Join(_, _, _, _)
Join(toks, gap, i, alt) ==
    IF Len(toks) = 0 THEN <<>>
    ELSE IF Len(toks) = 1 THEN toks[1]
    ELSE toks[1] \o (IF i = 1 THEN alt ELSE gap) \o Join(Tail(toks), gap, i - 1, alt)

Spaced(toks) == Join(toks, <<" ">>, 0, <<>>)

\* Literal forms of the number pattern, alone and as operands.
NumberForms ==
    { <<"1", ".">>, <<".", "5">>, <<"1", ".", "5">>, <<"1", "e", "2">>,
      <<"-", "1", ".", "5", "e", "1">>, <<"1", "e">>, <<"2", ".", "e", "1">>,
      <<"-", ".", "5">>, <<"e">>, <<"1", " ", "/", " ", ".", "5">>,
      <<"2", "e", "1", " ", "*", " ", "-", "1", "0">>,
      <<"(", "-", "3", ")", "\n">>, <<"\r", "4", "+", "1", "2">> }

\* The pieces of data between single spaces.
RECURSIVE Split(_, _)
Split(data, piece) ==
    IF data = <<>> THEN <<piece>>
    ELSE IF Head(data) = " " THEN <<piece>> \o Split(Tail(data), <<>>)
    ELSE Split(Tail(data), Append(piece, Head(data)))

Pieces(data) == Split(data, <<>>)

Gaps == {<<>>, <<"\t">>, <<" ", " ">>, <<"\r", "\n">>}

\* The state after Lexer(source_code), for every text of at most MaxRawLen
\* characters, every list of at most MaxTokens lexemes separated by single
\* spaces, and the number forms.
Init ==
    /\ \/ \E n \in 0..MaxRawLen : \E data \in [1..n -> RawAlphabet] :
             lexer = NewLexer(SubSeq(data, 1, n))
       \/ \E n \in 1..MaxTokens : \E toks \in [1..n -> Lexemes] :
             lexer = NewLexer(Spaced(SubSeq(toks, 1, n)))
       \/ \E data \in NumberForms : lexer = NewLexer(data)
    /\ stack = <<Frame("parse", "start")>>
    /\ ret = Whole(0)
    /\ result = Running
    /\ lastOp = "none"
    /\ steps = 0
    /\ round = 1
    /\ first = [data |-> <<>>, result |-> Running]

----------------------------------------------------------------------------
(* The language of the header comment, E = TE' ... F = ( E ) | num, over a *)
(* list of lexemes, with the usual value of an expression: * and / bind    *)
(* before + and -, each tier is evaluated from left to right.              *)

LitValue(tok) ==
    CASE tok = <<"0">> -> Whole(0)
      [] tok = <<"1">> -> Whole(1)
      [] tok = <<"-", "2">> -> Whole(-2)

Ref(ok, val, pos, div0) == [ok |-> ok, val |-> val, pos |-> pos, div0 |-> div0]

RefFail == Ref(FALSE, Whole(0), 0, FALSE)

RECURSIVE RefE(_, _), RefELoop(_, _), RefT(_, _), RefTLoop(_, _), RefF(_, _)
RefF(toks, i) ==
    IF i > Len(toks) THEN RefFail
    ELSE IF toks[i] \in Literals THEN Ref(TRUE, LitValue(toks[i]), i + 1, FALSE)
    ELSE IF toks[i] = <<"(">>
    THEN LET e == RefE(toks, i + 1)
         IN  IF e.ok /\ e.pos <= Len(toks) /\ toks[e.pos] = <<")">>
             THEN [e EXCEPT !.pos = e.pos + 1]
             ELSE RefFail
    ELSE RefFail

RefTLoop(toks, acc) ==
    IF acc.pos <= Len(toks) /\ toks[acc.pos] \in {<<"*">>, <<"/">>}
    THEN LET f == RefF(toks, acc.pos + 1)
             zero == toks[acc.pos] = <<"/">> /\ f.val[1] = 0
         IN  IF ~f.ok THEN RefFail
             ELSE RefTLoop(toks,
                    Ref(TRUE,
                        IF toks[acc.pos] = <<"*">> THEN Mul(acc.val, f.val)
                        ELSE IF zero THEN Whole(0)
                        ELSE Mul(acc.val, Norm(f.val[2], f.val[1])),
                        f.pos, acc.div0 \/ f.div0 \/ zero))
    ELSE acc

RefT(toks, i) ==
    LET f == RefF(toks, i) IN IF f.ok THEN RefTLoop(toks, f) ELSE RefFail

RefELoop(toks, acc) ==
    IF acc.pos <= Len(toks) /\ toks[acc.pos] \in {<<"+">>, <<"-">>}
    THEN LET t == RefT(toks, acc.pos + 1)
         IN  IF ~t.ok THEN RefFail
             ELSE RefELoop(toks,
                    Ref(TRUE,
                        IF toks[acc.pos] = <<"+">> THEN Add(acc.val, t.val)
                        ELSE Add(acc.val, Neg(t.val)),
                        t.pos, acc.div0 \/ t.div0))
    ELSE acc

RefE(toks, i) ==
    LET t == RefT(toks, i) IN IF t.ok THEN RefELoop(toks, t) ELSE RefFail

\* toks is an expression of the language, all of it.
WellFormed(toks) ==
    /\ \A i \in 1..Len(toks) : toks[i] \in Lexemes
    /\ LET e == RefE(toks, 1) IN e.ok /\ e.pos = Len(toks) + 1

\* The value of a well-formed toks; defined when nothing is divided by zero.
DividesByZero(toks) == RefE(toks, 1).div0

Value(toks) == RefE(toks, 1).val

----------------------------------------------------------------------------

Done == result.status # "running"

\* The driver calls parse once per expression, each call with a Lexer of
\* its own: after a well-formed expression it parses the same lexemes with
\* the whitespace between lexeme i and the next replaced by another gap.
Reparse ==
    /\ Done
    /\ round = 1
    /\ WellFormed(Pieces(lexer.data))
    /\ \E i \in 1..(Len(Pieces(lexer.data)) - 1), gap \in Gaps :
          lexer' = NewLexer(Join(Pieces(lexer.data), <<" ">>, i, gap))
    /\ stack' = <<Frame("parse", "start")>>
    /\ ret' = Whole(0)
    /\ result' = Running
    /\ lastOp' = "none"
    /\ steps' = 0
    /\ round' = 2
    /\ first' = [data |-> lexer.data, result |-> result]

Next == ParseStep \/ Reparse

Spec == Init /\ [][Next]_vars

----------------------------------------------------------------------------
(* Properties.                                                             *)

At(stk, res, fn, pc) ==
    /\ res.status = "running"
    /\ stk # <<>>
    /\ stk[Len(stk)].fn = fn
    /\ stk[Len(stk)].pc = pc

Raised(res, kind) == res.status = "raised" /\ res.exc = kind

\* The lexemes of the text of the first call, when it is a list of lexemes
\* separated by single spaces.
Expression == Pieces(lexer.data)

\* C1: on a well-formed expression whose lexemes are separated by single
\* spaces (and that divides nothing by zero) parse returns the value of
\* the expression under the usual arithmetic: * and / before + and -,
\* left to right within a tier, parentheses first.
C1_ValueOfWellFormed ==
    (round = 1 /\ Done /\ WellFormed(Expression) /\ ~DividesByZero(Expression))
        => (result.status = "returned" /\ result.value = Value(Expression))

\* C2: the outcome of parse on a well-formed expression does not change
\* when the whitespace between two adjacent lexemes is replaced by another
\* amount of whitespace, none included.
C2_WhitespaceInsignificant ==
    (round = 2 /\ Done) => result = first.result

\* An opening parenthesis that is never closed, or a closing one that was
\* never opened, around an otherwise well-formed expression.
Unclosed(toks) ==
    /\ Len(toks) >= 2
    /\ toks[1] = <<"(">>
    /\ WellFormed(Tail(toks))
    /\ ~DividesByZero(Tail(toks))

Unopened(toks) ==
    /\ Len(toks) >= 2
    /\ toks[Len(toks)] = <<")">>
    /\ WellFormed(SubSeq(toks, 1, Len(toks) - 1))
    /\ ~DividesByZero(SubSeq(toks, 1, Len(toks) - 1))

\* C3: parse fails with ParserError, and returns no number, on an
\* expression with an unclosed opening parenthesis and on one with an
\* unmatched closing parenthesis.
C3_UnbalancedFails ==
    (round = 1 /\ Done /\ (Unclosed(Expression) \/ Unopened(Expression)))
        => Raised(result, "ParserError")

ZeroDivisor(stk) ==
    \E i \in 1..Len(stk) :
        /\ stk[i].fn = "parse_T_prime"
        /\ stk[i].pc = "after_T_prime"
        /\ stk[i].value = <<"/">>
        /\ ~Truthy(stk[i].num)

C5_FailuresAreParserErrors ==
    (Done /\ result.status = "raised"
          /\ result.exc \notin {"ZeroDivisionError", "IndexError"})
        => result.exc = "ParserError"

\* The next step of the running rule asks the lexer for a token.
CallsNext ==
    \/ AtPc("parse_E_prime", "start")
    \/ AtPc("parse_T_prime", "start")
    \/ AtPc("parse_F", "start")
    \/ AtPc("parse_F", "after_E")

\* Nothing but whitespace is left at or after the cursor.
NoTokenLeft ==
    \A i \in (lexer.current + 1)..Len(lexer.data) : lexer.data[i] \in Whitespace

\* C6: wherever a rule asks for a token and nothing but whitespace is
\* left, peek raises nothing and returns the end-of-input marker
\* (None, None, position).
C6_EndOfInputMarker ==
    (CallsNext /\ NoTokenLeft) => (peek(lexer).exc = "" /\ peek(lexer).id = NONE)

\* A factor has just been parsed: its value is being returned to parse_T
\* or parse_T_prime.
FactorDone(stk, res) ==
    \/ At(stk, res, "parse_T", "after_F")
    \/ At(stk, res, "parse_T_prime", "after_F")

NumberFollows(lx) == peek(lx).exc = "" /\ peek(lx).id = NUM

\* A tail rule has read a Number token and is deciding what to do with it.
TailSeesNumber ==
    /\ AtPc("parse_E_prime", "branch") \/ AtPc("parse_T_prime", "branch")
    /\ Top.token = NUM

\* C7: a Number token right after a complete factor ends parse in
\* ParserError: the tail rule called after the factor reads it and raises;
\* and parse never returns a value while a Number token is the next one.
C7_NumberAfterFactorFails ==
    [][/\ (FactorDone(stack, result) /\ NumberFollows(lexer))
            => (At(stack', result', "parse_T_prime", "start") /\ lexer' = lexer)
       /\ (AtPc("parse_T_prime", "start") /\ NumberFollows(lexer))
            => TailSeesNumber'
       /\ TailSeesNumber => Raised(result', "ParserError")
       /\ result'.status = "returned" => ~NumberFollows(lexer')]_vars

C7_Witness ==
    /\ Raised(result, "ParserError")
    /\ lexer.data = <<"1", " ", "1", " ", "1">>
    /\ lexer.current = 3

\* Where an operand is expected, the text at the cursor (whitespace
\* skipped) is a minus sign directly followed by an unsigned literal; the
\* result is the index of the minus sign, or -1.
MinusLiteralAt(lx) ==
    LET c == SkipSpace(lx.data, lx.current)
    IN  IF /\ c + 1 < Len(lx.data)
           /\ lx.data[c + 1] = "-"
           /\ lx.data[c + 2] \notin {"+", "-"}
           /\ num_re_match(SubSeq(lx.data, c + 2, Len(lx.data))) # -1
        THEN c
        ELSE -1

UnsignedLiteralAt(lx, c) ==
    SubSeq(lx.data, c + 2, c + 1 + num_re_match(SubSeq(lx.data, c + 2, Len(lx.data))))

\* C8: where parse_F expects an operand (at the start, after a
\* parenthesis, after an operator) a minus sign directly before a literal
\* is read with it as one Number token, and the value of the factor is
\* minus the value of the unsigned literal.
C8_MinusNegatesLiteral ==
    [][/\ (AtPc("parse_F", "start") /\ MinusLiteralAt(lexer) # -1)
            => /\ At(stack', result', "parse_F", "branch")
               /\ stack'[Len(stack')].token = NUM
               /\ stack'[Len(stack')].value
                    = <<"-">> \o UnsignedLiteralAt(lexer, MinusLiteralAt(lexer))
       /\ (AtPc("parse_F", "branch") /\ Top.token = NUM /\ Top.value[1] = "-")
            => /\ Len(stack') = Len(stack) - 1
               /\ ret' = Neg(float(Tail(Top.value)))]_vars

C8_Witness ==
    /\ FactorDone(stack, result)
    /\ lexer.data = <<"1", " ", "-", " ", "-", "2">>
    /\ ret = Whole(-2)

\* The step calls put_back.
PutBackStep ==
    /\ AtPc("parse_E_prime", "branch") \/ AtPc("parse_T_prime", "branch")
    /\ lastOp' = "put_back"
    /\ result'.status = "running"

\* C9: put_back is called only right after a __next__ that returned a
\* token, never after another put_back; it moves the cursor back to where
\* that token was read from, the lexer operation that follows is a
\* __next__, and that __next__ returns the same token again.
C9_OnePutBackPerNext ==
    [][/\ PutBackStep
            => /\ lastOp = "next"
               /\ lexer'.current < lexer.current
               /\ next(lexer').id = Top.token
               /\ next(lexer').value = Top.value
               /\ next(lexer').lexer.current = lexer.current
       /\ (lastOp = "put_back" /\ lastOp' # "put_back" /\ round' = round)
            => /\ lastOp' = "next"
               /\ lexer = put_back(lexer')]_vars

C9_Witness ==
    /\ lastOp = "put_back"
    /\ AtPc("parse_E_prime", "start")
    /\ lexer.current > 0

\* The number of tokens of the text: what the lexer returns from the
\* start until the text ends or the lexer raises.
RECURSIVE CountTokens(_)
CountTokens(lx) ==
    LET p == peek(lx)
    IN  IF p.exc # "" \/ p.id = NONE
        THEN 0
        ELSE 1 + CountTokens([lx EXCEPT !.previous = lx.current, !.current = p.current])

NumTokens == CountTokens(NewLexer(lexer.data))

\* The steps that ask the lexer for nothing.  (A step that does is a total
\* IF on what the lexer answers: it can be taken wherever CallsNext holds.)
QuietStep ==
    \/ parse_call
    \/ parse_return
    \/ parse_E_call_T
    \/ parse_E_call_E_prime
    \/ parse_E_return
    \/ parse_E_prime_call_T
    \/ parse_E_prime_put_back
    \/ parse_E_prime_call_E_prime
    \/ parse_E_prime_return
    \/ parse_T_call_F
    \/ parse_T_call_T_prime
    \/ parse_T_return
    \/ parse_T_prime_call_F
    \/ parse_T_prime_put_back
    \/ parse_T_prime_call_T_prime
    \/ parse_T_prime_return
    \/ parse_F_call_E
    \/ parse_F_num
    \/ parse_F_unexpected

\* C10: parse terminates: while it runs it can take a step, at most three
\* rules are entered per token (and parse itself, and the three of the
\* first factor), and the steps taken are at most thirteen per token (an
\* opening parenthesis costs the steps of parse_E, parse_T, both tail
\* rules and parse_F) and twelve more.
C10_Terminates ==
    /\ ~Done => (CallsNext \/ ENABLED QuietStep)
    /\ Len(stack) <= 3 * NumTokens + 4
    /\ steps <= 13 * NumTokens + 12

C10_Witness ==
    /\ result.status = "returned"
    /\ lexer.data = <<"(", " ", "1", " ", ")">>
    /\ lastOp = "stop"
    /\ steps >= 20

====
